---------------------------- MODULE Spec2Model ----------------------------
(***************************************************************************)
(* krakend-trace-plugin: RegisterLogger and registerClients, the           *)
(* per-request proxy handler registerClients installs, its detached        *)
(* trackingCoroutine, and the two sync.Pool object pools they share.       *)
(*                                                                         *)
(* Byte strings are sequences of one-character strings.  The fixed marker  *)
(* texts of the payload are kept as single elements of such a sequence.    *)
(* A []byte is a slice header [arr, len] into a backing array of heap; a   *)
(* *bytes.Buffer is an index into bufHeap.                                 *)
(***************************************************************************)
EXTENDS Integers, Sequences, FiniteSets, TLC

(* ------------------------------ bounds ------------------------------ *)

\* longest request / response body the environment sends
MaxBodyLen == 2
\* largest capture limit c.maxCapture (in bytes) a handler is installed with
MaxCapture == 1
\* largest delivery timeout c.timeout (in ms; a clock tick is env.tickMS ms) a
\* handler is installed with
MaxTimeout == 1

(* ----------------------------- constants ---------------------------- *)

\* http.StatusBadGateway
StatusBadGateway == 502
\* defTimeoutMS, defMaxCaptureKB
defTimeoutMS == 2000
defMaxCaptureKB == 256

Reqs == {1, 2}
Byte == {"a", "b"}

Min(a, b) == IF a < b THEN a ELSE b

RECURSIVE SeqsUpTo(_, _)
SeqsUpTo(S, n) ==
    IF n = 0 THEN {<<>>}
    ELSE LET shorter == SeqsUpTo(S, n - 1)
         IN  shorter \cup {Append(s, x) : s \in shorter, x \in S}

Bodies == SeqsUpTo(Byte, MaxBodyLen)

\* s[:n] for n <= len(s)
Slice(s, n) == SubSeq(s, 1, n)

(* ------------------------------ state ------------------------------- *)

VARIABLES
    cfg,        \* the *cfg the handler closes over: maxCapture, timeout, verbose
    env,        \* what the environment may send: callers, bodies, upstream answers
    logger,     \* the global logger: "held", or nil because RegisterLogger was
                \* "never" called or was called with a value it "rejected"
    reg,        \* what registerClients came to: "none", "installed", "error", "panic"
    block,      \* the configuration block registerClients was called with
    hpc,        \* handler position of each request
    req,        \* *http.Request: Body (a reader or NIL) and URL
    orig,       \* the reader the request arrived with, as captureBody leaves it
    reqBody,    \* handler local reqBody (captured request bytes)
    upGot,      \* what the upstream server read from req.Body
    resp,       \* upstream *http.Response (NoResponse before the call returns)
    err,        \* error text of the upstream call ("" for none)
    caller,     \* http.ResponseWriter of the request: status, headers, body
    lr,         \* io.LimitedReader.N inside streamAndCapture
    srcPos,     \* bytes of resp.Body already read
    buf,        \* streamAndCapture local buf (slice header)
    respBody,   \* handler local respBody (slice header returned by streamAndCapture)
    respCh,     \* chan []byte of capacity 1: queued values
    closed,     \* close(respCh) has run
    sends,      \* number of sends on respCh
    hlog,       \* completion records written by always(...)
    heap,       \* backing arrays handed out by slicePool
    slicePool,  \* backing arrays resting in slicePool
    tpc,        \* trackingCoroutine position of each request
    launched,   \* number of go trackingCoroutine(...) statements run
    tResp,      \* trackingCoroutine local respBody (slice header received)
    tRead,      \* the bytes buf.Write(respBody) read from that slice
    payload,    \* trackingCoroutine local payload (owned string)
    bufHeap,    \* contents of the bytes.Buffer objects of bufPool
    bufPool,    \* buffers resting in bufPool
    tBuf,       \* trackingCoroutine local buf (the pooled buffer it used)
    timer,      \* ticks since context.WithTimeout, while the POST is in flight
    posts,      \* number of http.DefaultClient.Do(r) calls of the coroutine
    tracked,    \* what the tracking endpoint received: body and Content-Type
    tlog        \* vdbg entry of the delivery outcome

hvars == <<hpc, req, orig, reqBody, upGot, resp, err, caller, lr, srcPos, buf,
           respBody, respCh, closed, sends, hlog>>
pvars == <<heap, slicePool>>
tvars == <<tpc, launched, tResp, tRead, payload, bufHeap, bufPool, tBuf, timer,
           posts, tracked, tlog>>
cvars == <<cfg, env, logger, reg, block>>
vars == <<cvars, hvars, pvars, tvars>>

(* ----------------------------- readers ------------------------------ *)

\* bytes.NewReader(b) / a request body as it arrives: data and read position
NewReader(b) == [nil |-> FALSE, data |-> b, pos |-> 0, closed |-> FALSE]

\* a nil io.ReadCloser
NilReader == [nil |-> TRUE, data |-> <<>>, pos |-> 0, closed |-> FALSE]

\* io.ReadAll(r): everything from the read position to EOF
ReadAll(r) == SubSeq(r.data, r.pos + 1, Len(r.data))

Drained(r) == [r EXCEPT !.pos = Len(r.data)]

(* ------------------------------ slices ------------------------------ *)

NilSlice == [arr |-> 0, len |-> 0]

\* the bytes a slice header denotes now
Bytes(s) == IF s.arr = 0 THEN <<>> ELSE SubSeq(heap[s.arr], 1, s.len)

\* append(*s.buf, p...) for one byte p: the byte is stored in place behind the slice
AppendByte(arr, s, b) ==
    IF s.len < Len(arr) THEN [arr EXCEPT ![s.len + 1] = b] ELSE Append(arr, b)

(* --------------------------- configuration -------------------------- *)

TrackingURL == "http://tracking.svc/api/tracking"

\* the cfg values a handler can be installed with.  maxCapture is int(v * 1024)
\* for a max_capture_kb v > 0, which is 0 for v < 1/1024; timeout is counted in
\* clock ticks
Cfgs == [url : {TrackingURL}, timeout : 1..MaxTimeout,
         maxCapture : 0..MaxCapture, verbose : BOOLEAN]

\* logger != nil
LoggerHeld == logger = "held"

\* vdbg(c, v...): the entry reaches the log only when c.verbose && logger != nil
vdbg(log, entry) == IF cfg.verbose /\ LoggerHeld THEN Append(log, entry) ELSE log

\* always(v...): the entry reaches the log only when logger != nil
always(log, entry) == IF LoggerHeld THEN Append(log, entry) ELSE log

(* --------------------------- registerClients ------------------------ *)

\* A value of the configuration map (interface{}).  A float64 is kept exact as a
\* count n of 1/2048ths, so that v > 0, time.Duration(v) and int(v * 1024)
\* truncate as they do on the float.  A string is a URL text with its tokens.
NoURL == [text |-> "", parts |-> <<>>]
Absent == [kind |-> "absent", num |-> 0, str |-> NoURL, bool |-> FALSE]
Number(n) == [Absent EXCEPT !.kind = "number", !.num = n]
Str(u) == [Absent EXCEPT !.kind = "string", !.str = u]
Bool(b) == [Absent EXCEPT !.kind = "bool", !.bool = b]

\* the float64 v as a whole number: trunc(v)
Whole(n) == n \div 2048

URLAbs == [text |-> TrackingURL, parts |-> <<"http", "://", "tracking.svc", "/api/tracking">>]
URLPath == [text |-> "/api/tracking", parts |-> <<"/api/tracking">>]
URLBare == [text |-> "tracking.svc", parts |-> <<"tracking.svc">>]
PathTokens == {"/api/tracking"}

\* url.ParseRequestURI: an empty text is an error, a text that starts with a slash
\* is a path, a text with a scheme is an absolute URI, anything else is an error
ParseRequestURI(u) ==
    IF u.parts = <<>> THEN [ok |-> FALSE, scheme |-> "", host |-> ""]
    ELSE IF u.parts[1] \in PathTokens THEN [ok |-> TRUE, scheme |-> "", host |-> ""]
    ELSE IF Len(u.parts) >= 3 /\ u.parts[2] = "://"
         THEN [ok |-> TRUE, scheme |-> u.parts[1], host |-> u.parts[3]]
    ELSE [ok |-> FALSE, scheme |-> "", host |-> ""]

NoCfg == [url |-> "", timeout |-> 0, maxCapture |-> 0, verbose |-> FALSE]
NoBlock == [tracking_url |-> Absent, timeout_ms |-> Absent,
            max_capture_kb |-> Absent, verbose |-> Absent]

\* a cfg that takes every number given, without the v > 0 test
BuildCfgAnyNumber(b) ==
    [url |-> b.tracking_url.str.text,
     timeout |-> IF b.timeout_ms.kind = "number"
                 THEN Whole(b.timeout_ms.num) ELSE defTimeoutMS,
     maxCapture |-> IF b.max_capture_kb.kind = "number"
                    THEN Whole(b.max_capture_kb.num * 1024) ELSE defMaxCaptureKB * 1024,
     verbose |-> IF b.verbose.kind = "bool" THEN b.verbose.bool ELSE FALSE]

\* the c := &cfg{...} of registerClients with the three optional keys applied
\* (timeout in ms, maxCapture in bytes)
BuildCfg(b) ==
    [url |-> b.tracking_url.str.text,
     timeout |-> IF b.timeout_ms.kind = "number" /\ b.timeout_ms.num > 0
                 THEN Whole(b.timeout_ms.num) ELSE defTimeoutMS,
     maxCapture |-> IF b.max_capture_kb.kind = "number" /\ b.max_capture_kb.num > 0
                    THEN Whole(b.max_capture_kb.num * 1024) ELSE defMaxCaptureKB * 1024,
     verbose |-> IF b.verbose.kind = "bool" THEN b.verbose.bool ELSE FALSE]

\* logger.Info(tag, "config", ...) of registerClients: a call on the nil interface
\* panics
InfoPanics == ~LoggerHeld

\* registerClients(ctx, extra) for the block b: block["tracking_url"].(string)
\* panics unless the value is a string; a parse error is returned; logger.Info
\* runs before the handler is returned
registerClients(b) ==
    IF b.tracking_url.kind # "string" THEN [outcome |-> "panic", cfg |-> NoCfg]
    ELSE IF ~ParseRequestURI(b.tracking_url.str).ok THEN [outcome |-> "error", cfg |-> NoCfg]
    ELSE IF InfoPanics THEN [outcome |-> "panic", cfg |-> NoCfg]
    ELSE [outcome |-> "installed", cfg |-> BuildCfg(b)]

\* a block from which registerClients builds the cfg c
BlockFor(c) ==
    [tracking_url |-> Str(URLAbs),
     timeout_ms |-> Number(c.timeout * 2048),
     max_capture_kb |-> Number(IF c.maxCapture = 0 THEN 1 ELSE c.maxCapture * 2),
     verbose |-> Bool(c.verbose)]

(* ---------------------------- environment --------------------------- *)

Path == <<"/foo">>
Queries == {<<>>, <<"x=1">>}
Headers == {<<>>, << <<"Content-Type", "application/json">> >>}
Statuses == {200, 404}
UpstreamErrors == {"dial tcp: connection refused"}

\* the request bodies a caller can send: any byte string, or no body at all
ReqStreams == {NewReader(b) : b \in Bodies} \cup {NilReader}

\* the byte the upstream fills its answers to request r with, under EnvShared
ByteOf(r) == IF r = 1 THEN "a" ELSE "b"

\* two concurrent callers with different bodies and queries; the upstream answers
\* each with a body of any length made of the request's own byte, so that the
\* origin of every byte stays visible
EnvShared ==
    [reqs |-> Reqs,
     reqBodies |-> [r \in Reqs |-> {NewReader(IF r = 1 THEN <<"a", "b">> ELSE <<"b", "a">>)}],
     queries |-> [r \in Reqs |-> {IF r = 1 THEN <<"x=1">> ELSE <<>>}],
     statuses |-> {200}, headers |-> {<<>>},
     respBodies |-> [r \in Reqs |-> SeqsUpTo({ByteOf(r)}, MaxBodyLen)],
     blocks |-> {}, loggers |-> {}, tickMS |-> 1]

\* two concurrent callers; the upstream answers each with a body of full length
EnvFair == [EnvShared EXCEPT
               !.respBodies = [r \in Reqs |-> {b \in @[r] : Len(b) = MaxBodyLen}]]

\* one caller; every request and every upstream answer within the bounds
EnvSingle ==
    [reqs |-> {1},
     reqBodies |-> [r \in Reqs |-> ReqStreams],
     queries |-> [r \in Reqs |-> Queries],
     statuses |-> Statuses, headers |-> Headers,
     respBodies |-> [r \in Reqs |-> Bodies],
     blocks |-> {}, loggers |-> {}, tickMS |-> 1]

\* the configuration blocks the host may pass: each key absent, of the wrong type,
\* or a value on either side of what the code tests (numbers in 1/2048ths)
Blocks ==
    [tracking_url : {Absent, Number(2048), Str(URLAbs), Str(URLPath), Str(URLBare), Str(NoURL)},
     timeout_ms : {Absent, Number(-2048), Number(0), Number(1024), Number(1000 * 2048),
                   Str(URLBare)},
     max_capture_kb : {Absent, Number(-2048), Number(0), Number(1), Number(2), Str(URLBare)},
     verbose : {Absent, Bool(TRUE), Bool(FALSE), Number(2048)}]

\* registration followed by one caller; a clock tick is a second; RegisterLogger
\* is passed a Logger (TRUE) or some other value (FALSE)
EnvReg ==
    [reqs |-> {1},
     reqBodies |-> [r \in Reqs |-> {NewReader(<<"a", "b">>)}],
     queries |-> [r \in Reqs |-> {<<"x=1">>}],
     statuses |-> {200}, headers |-> {<<>>},
     respBodies |-> [r \in Reqs |-> SeqsUpTo({ByteOf(r)}, MaxBodyLen)],
     blocks |-> Blocks, loggers |-> BOOLEAN, tickMS |-> 1000]

(* ------------------------------- Init ------------------------------- *)

NoResponse == [status |-> 0, header |-> <<>>, body |-> <<>>]
NoRequest == [Body |-> NilReader, URL |-> [path |-> <<>>, rawQuery |-> <<>>]]
NoPost == [method |-> "", url |-> "", ctype |-> "", body |-> <<>>]

\* no request has arrived
InitRun ==
    /\ hpc = [r \in Reqs |-> "idle"]
    /\ req = [r \in Reqs |-> NoRequest]
    /\ orig = [r \in Reqs |-> NilReader]
    /\ reqBody = [r \in Reqs |-> <<>>]
    /\ upGot = [r \in Reqs |-> <<>>]
    /\ resp = [r \in Reqs |-> NoResponse]
    /\ err = [r \in Reqs |-> ""]
    /\ caller = [r \in Reqs |-> NoResponse]
    /\ lr = [r \in Reqs |-> 0]
    /\ srcPos = [r \in Reqs |-> 0]
    /\ buf = [r \in Reqs |-> NilSlice]
    /\ respBody = [r \in Reqs |-> NilSlice]
    /\ respCh = [r \in Reqs |-> <<>>]
    /\ closed = [r \in Reqs |-> FALSE]
    /\ sends = [r \in Reqs |-> 0]
    /\ hlog = [r \in Reqs |-> <<>>]
    /\ heap = <<>>
    /\ slicePool = {}
    /\ tpc = [r \in Reqs |-> "none"]
    /\ launched = [r \in Reqs |-> 0]
    /\ tResp = [r \in Reqs |-> NilSlice]
    /\ tRead = [r \in Reqs |-> <<>>]
    /\ payload = [r \in Reqs |-> <<>>]
    /\ bufHeap = <<>>
    /\ bufPool = {}
    /\ tBuf = [r \in Reqs |-> 0]
    /\ timer = [r \in Reqs |-> 0]
    /\ posts = [r \in Reqs |-> 0]
    /\ tracked = [r \in Reqs |-> NoPost]
    /\ tlog = [r \in Reqs |-> <<>>]

\* the handler is installed, the logger injected
InitState ==
    /\ cfg \in Cfgs
    /\ block = BlockFor(cfg)
    /\ logger = "held"
    /\ reg = "installed"
    /\ InitRun

Init == env = EnvShared /\ InitState

InitSingle == env = EnvSingle /\ InitState

InitFair == env = EnvFair /\ InitState

\* the plugin is loaded: no logger yet, registerClients not yet called
InitReg ==
    /\ env = EnvReg
    /\ cfg = NoCfg
    /\ block = NoBlock
    /\ logger = "never"
    /\ reg = "none"
    /\ InitRun

(* ------------------------- KrakenD hooks ---------------------------- *)

\* RegisterLogger(v): logger = l only when v implements Logger
RegisterLogger ==
    /\ reg = "none"
    /\ logger = "never"
    /\ \E v \in env.loggers : logger' = IF v THEN "held" ELSE "rejected"
    /\ UNCHANGED <<cfg, env, reg, block, hvars, pvars, tvars>>

\* the host calls registerClients with the plugin's block
RegisterClients ==
    /\ reg = "none"
    /\ \E b \in env.blocks :
          LET out == registerClients(b)
          IN  /\ block' = b
              /\ reg' = out.outcome
              /\ cfg' = out.cfg
    /\ UNCHANGED <<env, logger, hvars, pvars, tvars>>

(* --------------------------- captureBody ---------------------------- *)

\* captureBody leaving only the captured prefix in *rc
captureBodyClipped(rc, max) ==
    IF rc.nil
    THEN [captured |-> <<>>, rc |-> rc, old |-> rc]
    ELSE LET all == ReadAll(rc)
             cut == IF Len(all) > max THEN Slice(all, max) ELSE all
         IN  [captured |-> cut, rc |-> NewReader(cut),
              old |-> [Drained(rc) EXCEPT !.closed = TRUE]]

\* captureBody(rc, max): the captured bytes, the reader left in *rc, and the
\* reader that was in *rc as the call leaves it
captureBody(rc, max) ==
    IF rc.nil
    THEN [captured |-> <<>>, rc |-> rc, old |-> rc]
    ELSE LET all == ReadAll(rc)
         IN  [captured |-> IF Len(all) > max THEN Slice(all, max) ELSE all,
              rc |-> NewReader(all),
              old |-> [Drained(rc) EXCEPT !.closed = TRUE]]

(* ----------------------------- handler ------------------------------ *)

\* handler entry up to the upstream call: captureBody, vdbg, make(chan []byte, 1),
\* go trackingCoroutine(...)
Arrive(r) ==
    /\ reg = "installed"
    /\ hpc[r] = "idle"
    /\ r \in env.reqs
    /\ \E body \in env.reqBodies[r], q \in env.queries[r] :
          LET cb == captureBody(body, cfg.maxCapture)
          IN  /\ req' = [req EXCEPT ![r] =
                            [Body |-> cb.rc, URL |-> [path |-> Path, rawQuery |-> q]]]
              /\ orig' = [orig EXCEPT ![r] = cb.old]
              /\ reqBody' = [reqBody EXCEPT ![r] = cb.captured]
              /\ hlog' = [hlog EXCEPT ![r] = vdbg(@, <<"reqB:", Len(cb.captured)>>)]
    /\ respCh' = [respCh EXCEPT ![r] = <<>>]
    /\ tpc' = [tpc EXCEPT ![r] = "recv"]
    /\ launched' = [launched EXCEPT ![r] = @ + 1]
    /\ hpc' = [hpc EXCEPT ![r] = "upstream"]
    /\ UNCHANGED <<cvars, upGot, resp, err, caller, lr, srcPos, buf, respBody, closed,
                   sends, pvars, tResp, tRead, payload, bufHeap, bufPool, tBuf, timer,
                   posts, tracked, tlog>>

\* http.DefaultClient.Do(req) returns a response: the upstream has read req.Body
UpstreamOK(r) ==
    /\ hpc[r] = "upstream"
    /\ \E st \in env.statuses, hd \in env.headers, b \in env.respBodies[r] :
          resp' = [resp EXCEPT ![r] = [status |-> st, header |-> hd, body |-> b]]
    /\ upGot' = [upGot EXCEPT ![r] = ReadAll(req[r].Body)]
    /\ req' = [req EXCEPT ![r].Body = Drained(@)]
    /\ hpc' = [hpc EXCEPT ![r] = "headers"]
    /\ UNCHANGED <<cvars, orig, reqBody, err, caller, lr, srcPos, buf, respBody, respCh,
                   closed, sends, hlog, pvars, tvars>>

\* http.Error(w, err.Error(), http.StatusBadGateway)
httpError(e, code) ==
    [status |-> code,
     header |-> << <<"Content-Type", "text/plain; charset=utf-8">>,
                   <<"X-Content-Type-Options", "nosniff">> >>,
     body |-> <<e, "\n">>]

\* the failure path with the channel closed on return (defer close(respCh))
UpstreamFailClosing(r) ==
    /\ hpc[r] = "upstream"
    /\ \E e \in UpstreamErrors :
          /\ err' = [err EXCEPT ![r] = e]
          /\ caller' = [caller EXCEPT ![r] = httpError(e, StatusBadGateway)]
    /\ closed' = [closed EXCEPT ![r] = TRUE]
    /\ hpc' = [hpc EXCEPT ![r] = "done"]
    /\ UNCHANGED <<cvars, req, orig, reqBody, upGot, resp, lr, srcPos, buf, respBody,
                   respCh, sends, hlog, pvars, tvars>>

\* http.DefaultClient.Do(req) returns an error: answer 502 and return
UpstreamFail(r) ==
    /\ hpc[r] = "upstream"
    /\ \E e \in UpstreamErrors :
          /\ err' = [err EXCEPT ![r] = e]
          /\ caller' = [caller EXCEPT ![r] = httpError(e, StatusBadGateway)]
    /\ hpc' = [hpc EXCEPT ![r] = "done"]
    /\ UNCHANGED <<cvars, req, orig, reqBody, upGot, resp, lr, srcPos, buf, respBody,
                   respCh, closed, sends, hlog, pvars, tvars>>

\* the status written without the upstream's headers
WriteHeadersStatusOnly(r) ==
    /\ hpc[r] = "headers"
    /\ caller' = [caller EXCEPT ![r].status = resp[r].status]
    /\ hpc' = [hpc EXCEPT ![r] = "stream"]
    /\ UNCHANGED <<cvars, req, orig, reqBody, upGot, resp, err, lr, srcPos, buf, respBody,
                   respCh, closed, sends, hlog, pvars, tvars>>

\* propagate headers & status: w.Header().Add(k, h) for each, w.WriteHeader
WriteHeaders(r) ==
    /\ hpc[r] = "headers"
    /\ caller' = [caller EXCEPT ![r].header = @ \o resp[r].header,
                                ![r].status = resp[r].status]
    /\ hpc' = [hpc EXCEPT ![r] = "stream"]
    /\ UNCHANGED <<cvars, req, orig, reqBody, upGot, resp, err, lr, srcPos, buf, respBody,
                   respCh, closed, sends, hlog, pvars, tvars>>

(* ------------------------- streamAndCapture ------------------------- *)

\* a pool that never allocates: Get waits until another request has put a slice back
SliceGetNoNew == slicePool

\* sync.Pool.Get on slicePool: any array resting in the pool, or a new one from New
SliceGet == slicePool \cup {Len(heap) + 1}

\* streamAndCapture entry.  max <= 0: io.Copy(dst, src) and return nil.  Otherwise
\* buf := slicePool.Get().([]byte)[:0], lr := &io.LimitedReader{R: src, N: max}
StreamBegin(r) ==
    /\ hpc[r] = "stream"
    /\ IF cfg.maxCapture <= 0
       THEN /\ caller' = [caller EXCEPT ![r].body = @ \o resp[r].body]
            /\ srcPos' = [srcPos EXCEPT ![r] = Len(resp[r].body)]
            /\ respBody' = [respBody EXCEPT ![r] = NilSlice]
            /\ hpc' = [hpc EXCEPT ![r] = "send"]
            /\ UNCHANGED <<lr, buf, pvars>>
       ELSE /\ \E a \in SliceGet :
                  /\ heap' = IF a > Len(heap) THEN Append(heap, <<>>) ELSE heap
                  /\ slicePool' = slicePool \ {a}
                  /\ buf' = [buf EXCEPT ![r] = [arr |-> a, len |-> 0]]
            /\ lr' = [lr EXCEPT ![r] = cfg.maxCapture]
            /\ hpc' = [hpc EXCEPT ![r] = "copy"]
            /\ UNCHANGED <<caller, srcPos, respBody>>
    /\ UNCHANGED <<cvars, req, orig, reqBody, upGot, resp, err, respCh, closed, sends,
                   hlog, tvars>>

\* what io.Copy(dst, tee) can still read: the LimitedReader ends at N = 0
TeeOpen(r) == lr[r] > 0 /\ srcPos[r] < Len(resp[r].body)

\* one round of io.Copy(dst, tee): a byte is read through lr, teed into the
\* sliceWriter (append to *s.buf) and written to dst
StreamCopy(r) ==
    /\ hpc[r] = "copy"
    /\ TeeOpen(r)
    /\ LET b == resp[r].body[srcPos[r] + 1]
       IN  /\ heap' = [heap EXCEPT ![buf[r].arr] = AppendByte(@, buf[r], b)]
           /\ buf' = [buf EXCEPT ![r].len = @ + 1]
           /\ caller' = [caller EXCEPT ![r].body = Append(@, b)]
    /\ lr' = [lr EXCEPT ![r] = @ - 1]
    /\ srcPos' = [srcPos EXCEPT ![r] = @ + 1]
    /\ UNCHANGED <<cvars, hpc, req, orig, reqBody, upGot, resp, err, respBody, respCh,
                   closed, sends, hlog, slicePool, tvars>>

\* io.Copy sees EOF; defer slicePool.Put(buf[:0]); return buf
StreamReturn(r) ==
    /\ hpc[r] = "copy"
    /\ ~TeeOpen(r)
    /\ slicePool' = slicePool \cup {buf[r].arr}
    /\ respBody' = [respBody EXCEPT ![r] = buf[r]]
    /\ hpc' = [hpc EXCEPT ![r] = "send"]
    /\ UNCHANGED <<cvars, req, orig, reqBody, upGot, resp, err, caller, lr, srcPos, buf,
                   respCh, closed, sends, hlog, heap, tvars>>

\* a handler that closes the channel without the send
SendSkipped(r) ==
    /\ hpc[r] = "send"
    /\ hpc' = [hpc EXCEPT ![r] = "close"]
    /\ UNCHANGED <<cvars, req, orig, reqBody, upGot, resp, err, caller, lr, srcPos, buf,
                   respBody, respCh, sends, closed, hlog, pvars, tvars>>

\* respCh <- respBody: blocks while the one slot is taken; panics on a closed channel
Send(r) ==
    /\ hpc[r] = "send"
    /\ Len(respCh[r]) < 1
    /\ ~closed[r]
    /\ respCh' = [respCh EXCEPT ![r] = Append(@, respBody[r])]
    /\ sends' = [sends EXCEPT ![r] = @ + 1]
    /\ hpc' = [hpc EXCEPT ![r] = "close"]
    /\ UNCHANGED <<cvars, req, orig, reqBody, upGot, resp, err, caller, lr, srcPos, buf,
                   respBody, closed, hlog, pvars, tvars>>

\* close(respCh); always(tag, req.URL.Path, "status:", ..., "elapsed:", ...); return
Close(r) ==
    /\ hpc[r] = "close"
    /\ ~closed[r]
    /\ closed' = [closed EXCEPT ![r] = TRUE]
    /\ hlog' = [hlog EXCEPT ![r] = always(@, <<req[r].URL.path, "status:", resp[r].status>>)]
    /\ hpc' = [hpc EXCEPT ![r] = "done"]
    /\ UNCHANGED <<cvars, req, orig, reqBody, upGot, resp, err, caller, lr, srcPos, buf,
                   respBody, respCh, sends, pvars, tvars>>

(* ------------------------ trackingCoroutine ------------------------- *)

\* a receive that does not wait for the handoff (select with a default case)
CanReceiveNoWait(r) == TRUE

\* respBody := <-respCh: blocks while the channel is empty and open; a closed and
\* empty channel yields the zero value
CanReceive(r) == respCh[r] # <<>> \/ closed[r]

Recv(r) ==
    /\ tpc[r] = "recv"
    /\ CanReceive(r)
    /\ tResp' = [tResp EXCEPT ![r] = IF respCh[r] # <<>> THEN Head(respCh[r]) ELSE NilSlice]
    /\ respCh' = [respCh EXCEPT ![r] = IF @ # <<>> THEN Tail(@) ELSE @]
    /\ tpc' = [tpc EXCEPT ![r] = "build"]
    /\ UNCHANGED <<cvars, hpc, req, orig, reqBody, upGot, resp, err, caller, lr, srcPos,
                   buf, respBody, closed, sends, hlog, pvars, launched, tRead, payload,
                   bufHeap, bufPool, tBuf, timer, posts, tracked, tlog>>

\* (*url.URL).String() of a request URL with a path and a raw query
URLString(u) == u.path \o (IF u.rawQuery = <<>> THEN <<>> ELSE <<"?">> \o u.rawQuery)

\* a Reset that keeps what the buffer held (the call left out)
ResetKeeps(b) == b

\* bytes.Buffer: Reset, WriteString of a marker text, Write / WriteString of data
Reset(b) == <<>>
WriteMarker(b, m) == Append(b, m)
WriteData(b, p) == b \o p

\* the buffer contents after buf.Reset() and the nine writes, from contents b0
BuildPayload(b0, R, Q, u) ==
    LET b1 == Reset(b0)
        b2 == WriteMarker(b1, "{$responseBody}")
        b3 == WriteData(b2, R)
        b4 == WriteMarker(b3, "{/responseBody},{$requestBody}")
        b5 == WriteData(b4, Q)
        b6 == WriteMarker(b5, "{/requestBody},{$requestQuery}")
        b7 == WriteData(b6, u.rawQuery)
        b8 == WriteMarker(b7, "{/requestQuery},{$requestUrl}")
        b9 == WriteData(b8, URLString(u))
    IN  WriteMarker(b9, "{/requestUrl}")

\* sync.Pool.Get on bufPool: any buffer resting in the pool, or a new one from New
BufGet == bufPool \cup {Len(bufHeap) + 1}

\* bufPool.Get ... payload := buf.String(); bufPool.Put(buf)
Build(r) ==
    /\ tpc[r] = "build"
    /\ \E k \in BufGet :
          LET b0 == IF k > Len(bufHeap) THEN <<>> ELSE bufHeap[k]
              out == BuildPayload(b0, Bytes(tResp[r]), reqBody[r], req[r].URL)
          IN  /\ bufHeap' = IF k > Len(bufHeap) THEN Append(bufHeap, out)
                            ELSE [bufHeap EXCEPT ![k] = out]
              /\ bufPool' = bufPool \cup {k}
              /\ tBuf' = [tBuf EXCEPT ![r] = k]
              /\ payload' = [payload EXCEPT ![r] = out]
    /\ tRead' = [tRead EXCEPT ![r] = Bytes(tResp[r])]
    /\ tpc' = [tpc EXCEPT ![r] = "ready"]
    /\ UNCHANGED <<cvars, hvars, pvars, launched, tResp, timer, posts, tracked, tlog>>

\* a body that reads the pooled buffer when the request is made (no copy taken)
PostBodyAliased(r) == bufHeap[tBuf[r]]

\* strings.NewReader(payload): payload is the copy made by buf.String() before
\* bufPool.Put(buf)
PostBody(r) == payload[r]

\* context.WithTimeout(context.Background(), c.timeout); NewRequestWithContext;
\* r.Header.Set("Content-Type", "text/plain"); http.DefaultClient.Do(r) is called
PostStart(r) ==
    /\ tpc[r] = "ready"
    /\ posts' = [posts EXCEPT ![r] = @ + 1]
    /\ tracked' = [tracked EXCEPT ![r] =
                      [method |-> "POST", url |-> cfg.url, ctype |-> "text/plain",
                       body |-> PostBody(r)]]
    /\ tpc' = [tpc EXCEPT ![r] = "post"]
    /\ UNCHANGED <<cvars, hvars, pvars, launched, tResp, tRead, payload, bufHeap,
                   bufPool, tBuf, timer, tlog>>

\* the step that ends the coroutine after Do(r) returned: one vdbg entry, return
Finish(r, entry) ==
    /\ tlog' = [tlog EXCEPT ![r] = vdbg(@, entry)]
    /\ tpc' = [tpc EXCEPT ![r] = "done"]
    /\ UNCHANGED <<cvars, hvars, pvars, launched, tResp, tRead, payload, bufHeap,
                   bufPool, tBuf, timer, posts, tracked>>

\* a context whose deadline runs from the launch of the coroutine
CtxLiveFromLaunch(r) ==
    tpc[r] \in {"recv", "build", "ready", "post"} /\ timer[r] * env.tickMS < cfg.timeout

\* the context of request r exists: from context.WithTimeout, called after the
\* payload is built, until the coroutine returns; timer[r] is the time since then
CtxLive(r) == tpc[r] = "post"

\* the deadline of the context of request r has been reached
Expired(r) == tpc[r] = "post" /\ timer[r] * env.tickMS >= cfg.timeout

\* Do(r) returns a response before the deadline
PostOK(r) ==
    /\ tpc[r] = "post"
    /\ ~Expired(r)
    /\ Finish(r, <<"POST ok (", Len(payload[r]), "B)">>)

\* a delivery error surfaced to the caller (http.Error on the request's writer)
PostErrToCaller(r) ==
    /\ tpc[r] = "post"
    /\ ~Expired(r)
    /\ tlog' = [tlog EXCEPT ![r] = vdbg(@, <<"POST failed:", "connection refused">>)]
    /\ caller' = [caller EXCEPT ![r] = httpError("connection refused", StatusBadGateway)]
    /\ tpc' = [tpc EXCEPT ![r] = "done"]
    /\ UNCHANGED <<cvars, hpc, req, orig, reqBody, upGot, resp, err, lr, srcPos, buf,
                   respBody, respCh, closed, sends, hlog, pvars, launched, tResp, tRead,
                   payload, bufHeap, bufPool, tBuf, timer, posts, tracked>>

\* a failed POST tried once more
PostErrRetry(r) ==
    /\ tpc[r] = "post"
    /\ ~Expired(r)
    /\ tlog' = [tlog EXCEPT ![r] = vdbg(@, <<"POST failed:", "connection refused">>)]
    /\ tpc' = [tpc EXCEPT ![r] = IF posts[r] < 2 THEN "ready" ELSE "done"]
    /\ UNCHANGED <<cvars, hvars, pvars, launched, tResp, tRead, payload, bufHeap,
                   bufPool, tBuf, timer, posts, tracked>>

\* Do(r) returns an error before the deadline
PostErr(r) ==
    /\ tpc[r] = "post"
    /\ ~Expired(r)
    /\ Finish(r, <<"POST failed:", "connection refused">>)

\* a POST issued without the context: the deadline never aborts it
PostNeverAborted(r) == FALSE /\ UNCHANGED vars

\* the deadline of ctx passes: Do(r) is aborted and returns the context's error
PostTimeout(r) ==
    /\ Expired(r)
    /\ Finish(r, <<"POST failed:", "context deadline exceeded">>)

\* the clock advances by one tick for every live context; a POST whose deadline
\* is reached is aborted before the clock moves on
Tick ==
    /\ \E r \in Reqs : CtxLive(r)
    /\ \A r \in Reqs : ~Expired(r)
    /\ timer' = [r \in Reqs |-> IF CtxLive(r) THEN timer[r] + 1 ELSE timer[r]]
    /\ UNCHANGED <<cvars, hvars, pvars, tpc, launched, tResp, tRead, payload,
                   bufHeap, bufPool, tBuf, posts, tracked, tlog>>

(* --------------------------- specification -------------------------- *)

Handler(r) ==
    \/ Arrive(r)
    \/ UpstreamOK(r)
    \/ UpstreamFail(r)
    \/ WriteHeaders(r)
    \/ StreamBegin(r)
    \/ StreamCopy(r)
    \/ StreamReturn(r)
    \/ Send(r)
    \/ Close(r)

Coroutine(r) ==
    \/ Recv(r)
    \/ Build(r)
    \/ PostStart(r)
    \/ PostOK(r)
    \/ PostErr(r)
    \/ PostTimeout(r)

Next == (\E r \in Reqs : Handler(r) \/ Coroutine(r)) \/ Tick

Spec == Init /\ [][Next]_vars

SpecSingle == InitSingle /\ [][Next]_vars

NextReg == RegisterLogger \/ RegisterClients \/ Next

SpecReg == InitReg /\ [][NextReg]_vars

\* Scheduling: every goroutine that can take a step eventually takes one, an
\* upstream call returns (with a response or an error), and the clock advances.
\* Callers need not arrive and the tracking endpoint need not answer.
Fairness ==
    /\ WF_vars(Tick)
    /\ \A r \in Reqs :
          /\ WF_vars(UpstreamOK(r) \/ UpstreamFail(r))
          /\ WF_vars(WriteHeaders(r) \/ StreamBegin(r) \/ StreamCopy(r)
                       \/ StreamReturn(r) \/ Send(r) \/ Close(r))
          /\ WF_vars(Recv(r) \/ Build(r) \/ PostStart(r) \/ PostTimeout(r))

FairSpec == InitFair /\ [][Next]_vars /\ Fairness

(* ------------------------------ claims ------------------------------ *)

\* the upstream call of request r returned a response
Answered(r) == resp[r] # NoResponse

\* streamAndCapture of request r has returned
Streamed(r) == Answered(r) /\ hpc[r] \in {"send", "close", "done"}

\* the first min(len(b), max) bytes of b
Prefix(b, max) == SubSeq(b, 1, Min(Len(b), max))

\* the coroutine of request r is past its receive
PastRecv(r) == tpc[r] \in {"build", "ready", "post", "done"}

\* the coroutine of request r has built its payload
Built(r) == tpc[r] \in {"ready", "post", "done"}

\* C1: with a capture limit > 0, once streamAndCapture has returned the caller has
\* been written the whole upstream body, unmodified and in order, also when the
\* body is longer than the limit.
C1_CallerGetsWholeBody ==
    \A r \in Reqs :
        (cfg.maxCapture > 0 /\ Streamed(r)) => caller[r].body = resp[r].body

\* C2: with concurrent requests sharing slicePool, the response bytes a coroutine
\* writes into its payload are the bytes captured from its own request's response.
C2_PayloadCarriesOwnResponse ==
    \A r \in Reqs :
        (cfg.maxCapture > 0 /\ Built(r)) => tRead[r] = Prefix(resp[r].body, cfg.maxCapture)

\* C3: the coroutine is past its receive (encoding, or posting) only after
\* streamAndCapture has returned and the handler has sent on the handoff channel.
C3_NoDeliveryBeforeHandoff ==
    \A r \in Reqs :
        (PastRecv(r) \/ posts[r] > 0) =>
            /\ Streamed(r)
            /\ hpc[r] \in {"close", "done"}
            /\ sends[r] = 1

\* C3 witness: a coroutine is encoding while its handler, past the send, has not
\* closed the channel yet.
C3_Witness == \E r \in Reqs : tpc[r] = "build" /\ hpc[r] = "close"

\* C4: after a failed upstream call the caller has status 502 and the error text,
\* the handoff channel was neither sent on nor closed, no tracking POST was issued
\* and the coroutine is still at its receive.
C4_UpstreamFailureAbandonsDelivery ==
    \A r \in Reqs :
        err[r] # "" =>
            /\ hpc[r] = "done"
            /\ caller[r].status = StatusBadGateway
            /\ caller[r].body = <<err[r], "\n">>
            /\ sends[r] = 0 /\ respCh[r] = <<>> /\ ~closed[r]
            /\ tpc[r] = "recv"
            /\ posts[r] = 0 /\ tracked[r] = NoPost

\* C4 witness: one request failed upstream while the other was delivered.
C4_Witness ==
    \E r, q \in Reqs : err[r] # "" /\ hpc[r] = "done" /\ tpc[q] = "done"

\* the steps of the coroutine of request r
CoroutineStep(r) == tpc[r] # "none" /\ tpc'[r] # tpc[r]

\* C5: no step of a coroutine writes to a caller's response, a response the handler
\* has finished is never changed afterwards, and the step that ends a coroutine
\* after its POST changes nothing but the coroutine's position and its verbose log.
C5_DeliveryNeverTouchesCaller ==
    [][\A r \in Reqs :
          /\ CoroutineStep(r) => caller' = caller /\ hpc' = hpc
          /\ hpc[r] = "done" => caller'[r] = caller[r]
          /\ (tpc[r] = "post" /\ tpc'[r] = "done") =>
                /\ UNCHANGED <<cvars, hvars, pvars, launched, tResp, tRead, payload,
                               bufHeap, bufPool, tBuf, timer, posts, tracked>>
                /\ (tlog'[r] # tlog[r] => cfg.verbose)]_vars

\* C5 witness: a POST failed or timed out, logged under verbose, and the caller
\* holds the upstream's status and bytes.
C5_Witness ==
    \E r \in Reqs :
        /\ tpc[r] = "done" /\ tlog[r] # <<>> /\ tlog[r][1][1] = "POST failed:"
        /\ caller[r].status = resp[r].status /\ caller[r].body # <<>>

\* C6: a request launches its coroutine exactly once; the coroutine calls
\* Do(r) at most once, exactly once when it has run to its end, and only after
\* a successful upstream call.
C6_OneTaskOnePost ==
    \A r \in Reqs :
        /\ launched[r] = (IF hpc[r] = "idle" THEN 0 ELSE 1)
        /\ posts[r] <= 1
        /\ tpc[r] \in {"post", "done"} <=> posts[r] = 1
        /\ posts[r] = 1 => Answered(r) /\ err[r] = ""

\* C6 witness: a coroutine whose POST ran into the deadline has ended with one POST.
C6_Witness ==
    \E r \in Reqs : tpc[r] = "done" /\ timer[r] >= cfg.timeout /\ posts[r] = 1

\* C7: every launched coroutine eventually terminates.
C7_EveryTaskTerminates ==
    \A r \in Reqs : (tpc[r] = "recv") ~> (tpc[r] = "done")

\* C7 (amended): the coroutine of every request whose upstream call returned a
\* response eventually terminates, and its POST is never in flight beyond the
\* delivery timeout.
C7_TaskTerminatesAfterAnswer ==
    /\ \A r \in Reqs : Answered(r) ~> (tpc[r] = "done")
    /\ [](\A r \in Reqs : timer[r] <= cfg.timeout)

\* C7 witness: a coroutine ended by the deadline after its handler was done.
C7_Witness ==
    \E r \in Reqs :
        tpc[r] = "done" /\ hpc[r] = "done" /\ Answered(r) /\ timer[r] = cfg.timeout

\* C8: with a capture limit > 0, captureBody leaves the original stream drained and
\* closed, captures exactly the first min(len(B), maxCapture) bytes of B, and puts
\* a fresh stream of the whole of B in its place, which the upstream call reads in
\* full; a nil stream gives an empty capture and stays nil.
C8_CaptureBodyKeepsWholeStream ==
    \A r \in Reqs :
        (cfg.maxCapture > 0 /\ hpc[r] # "idle") =>
            IF orig[r].nil
            THEN reqBody[r] = <<>> /\ req[r].Body.nil
            ELSE LET B == orig[r].data
                 IN  /\ orig[r].pos = Len(B) /\ orig[r].closed
                     /\ reqBody[r] = Prefix(B, cfg.maxCapture)
                     /\ ~req[r].Body.nil /\ req[r].Body.data = B
                     /\ hpc[r] = "upstream" => req[r].Body.pos = 0
                     /\ Answered(r) => upGot[r] = B

\* C8 witness: the upstream read a request body longer than the capture limit.
C8_Witness ==
    \E r \in Reqs :
        /\ cfg.maxCapture > 0 /\ Answered(r)
        /\ Len(orig[r].data) > cfg.maxCapture
        /\ Len(reqBody[r]) = cfg.maxCapture

\* C9: with a capture limit > 0, the bytes of the slice on the handoff channel are
\* exactly the first min(len(B), maxCapture) bytes of the upstream body B.
C9_HandoffIsPrefix ==
    \A r \in Reqs :
        (cfg.maxCapture > 0 /\ respCh[r] # <<>>) =>
            Bytes(Head(respCh[r])) = Prefix(resp[r].body, cfg.maxCapture)

\* C10: the payload is the four marked segments in the order response body, request
\* body, raw query, URL, with the bytes read from the handed-over slice (R) and the
\* captured request bytes (Q) in between unchanged, and it is what the POST carries,
\* as text/plain, to the tracking URL.
C10_PayloadFormat ==
    \A r \in Reqs :
        /\ Built(r) =>
              payload[r] = <<"{$responseBody}">> \o tRead[r]
                           \o <<"{/responseBody},{$requestBody}">> \o reqBody[r]
                           \o <<"{/requestBody},{$requestQuery}">> \o req[r].URL.rawQuery
                           \o <<"{/requestQuery},{$requestUrl}">> \o URLString(req[r].URL)
                           \o <<"{/requestUrl}">>
        /\ posts[r] > 0 =>
              tracked[r] = [method |-> "POST", url |-> cfg.url, ctype |-> "text/plain",
                            body |-> payload[r]]

\* C10 witness: a payload was built in a buffer that held an earlier payload, with
\* non-empty response and request captures.
C10_Witness ==
    \E r, q \in Reqs :
        /\ r # q /\ Built(q) /\ posts[r] > 0 /\ bufHeap = <<payload[r]>>
        /\ tRead[r] # <<>> /\ reqBody[r] # <<>>

\* C14: on the success path the handler sends on the handoff channel once and then
\* closes it once, with no send after the close and no second close; when the
\* handler is at its send the slot is free and the channel open, wherever the
\* coroutine is; and the coroutine's receive takes the slice the handler sent,
\* never the zero value of a closed channel.
C14_HandoffOnceThenClose ==
    /\ [](\A r \in Reqs :
            /\ sends[r] <= 1
            /\ hpc[r] = "send" => respCh[r] = <<>> /\ ~closed[r] /\ sends[r] = 0
            /\ hpc[r] = "close" => sends[r] = 1 /\ ~closed[r]
            /\ (hpc[r] = "done" /\ err[r] = "") => sends[r] = 1 /\ closed[r]
            /\ closed[r] => hpc[r] = "done")
    /\ [][\A r \in Reqs :
            /\ sends'[r] # sends[r] => ~closed[r] /\ respCh'[r] = <<respBody[r]>>
            /\ closed[r] => closed'[r] /\ sends'[r] = sends[r]
            /\ (tpc[r] = "recv" /\ tpc'[r] # "recv") =>
                  /\ respCh[r] = <<respBody[r]>>
                  /\ tResp'[r] = respBody[r]
                  /\ respCh'[r] = <<>>]_vars

\* C14 witness: one handler is done, its channel closed with the slice still in the
\* slot and its coroutine not yet scheduled, while the other coroutine has received.
C14_Witness ==
    \E r, q \in Reqs :
        /\ hpc[r] = "done" /\ closed[r] /\ tpc[r] = "recv" /\ respCh[r] # <<>>
        /\ PastRecv(q) /\ tResp[q] = respBody[q]

\* C15: the deadline's clock of a request has not started while its coroutine
\* waits for the handoff or builds the payload, and is at zero when the POST is
\* issued, so no step of the handler and no time spent before the POST takes from
\* the timeout; once the deadline is reached with the POST in flight, the
\* coroutine's only step is the abort, logged (under verbose) as a failed POST.
C15_DeadlineStartsAtDelivery ==
    /\ [](\A r \in Reqs :
            /\ tpc[r] \in {"none", "recv", "build", "ready"} => timer[r] = 0
            /\ Expired(r) => ~ENABLED PostOK(r) /\ ~ENABLED PostErr(r))
    /\ [][\A r \in Reqs :
            /\ (tpc[r] = "ready" /\ tpc'[r] = "post") => timer'[r] = 0
            /\ timer'[r] # timer[r] => tpc[r] = "post" /\ ~Expired(r)
            /\ (Expired(r) /\ tpc'[r] # tpc[r]) =>
                  /\ tpc'[r] = "done"
                  /\ tlog'[r] = vdbg(tlog[r], <<"POST failed:", "context deadline exceeded">>)]_vars

\* C15 witness: one request's POST ran through its whole timeout and was aborted
\* and logged while the other request's handler was still streaming, its own
\* clock not started.
C15_Witness ==
    \E r, q \in Reqs :
        /\ tpc[q] = "done" /\ timer[q] * env.tickMS >= cfg.timeout /\ cfg.timeout > 0
        /\ tlog[q] = <<<<"POST failed:", "context deadline exceeded">>>>
        /\ hpc[r] = "copy" /\ tpc[r] = "recv" /\ timer[r] = 0

\* C16: a coroutine that has built its payload has put its buffer back in bufPool;
\* from then on no step, in particular no other coroutine's reset and refill of
\* that buffer, changes the payload, and the body of the POST is the payload as it
\* was built, whatever the buffer holds by then.
C16_PayloadIsOwnedCopy ==
    /\ [](\A r \in Reqs : Built(r) => tBuf[r] \in bufPool)
    /\ [][\A r \in Reqs :
            /\ Built(r) => payload'[r] = payload[r]
            /\ (tpc[r] = "build" /\ tpc'[r] = "ready") =>
                  payload'[r] = bufHeap'[tBuf'[r]]
            /\ (tpc[r] = "ready" /\ tpc'[r] = "post") => tracked'[r].body = payload[r]
            /\ tracked[r] # NoPost => tracked'[r] = tracked[r]]_vars

\* C16 witness: two coroutines used the same buffer; the first one's POST carries
\* its own payload although the buffer was refilled with the other's before that
\* POST ended.
C16_Witness ==
    \E r, q \in Reqs :
        /\ r # q /\ tBuf[r] = tBuf[q] /\ Built(q)
        /\ tpc[r] = "post" /\ tracked[r].body = payload[r]
        /\ bufHeap[tBuf[r]] = payload[q] /\ payload[q] # payload[r]

\* C17: the handler moves through its steps in one order, each at most once:
\* capture of the request body and launch of the coroutine, then the upstream
\* call; after a response, the upstream's headers and status are on the caller's
\* response, unchanged, before any body byte, then the body is streamed, then the
\* send and the close, then the handler is done; after an upstream error nothing
\* of an upstream response is written and the handler is done with the 502 answer.
C17_HandlerStepOrder ==
    /\ [](\A r \in Reqs :
            /\ launched[r] <= 1
            /\ hpc[r] = "idle" => launched[r] = 0 /\ tpc[r] = "none"
            /\ hpc[r] # "idle" => launched[r] = 1 /\ tpc[r] # "none"
            /\ hpc[r] \in {"idle", "upstream"} => resp[r] = NoResponse /\ upGot[r] = <<>>
            /\ hpc[r] \in {"idle", "upstream", "headers"} => caller[r] = NoResponse
            /\ hpc[r] \in {"headers", "stream"} => caller[r].body = <<>>
            /\ (hpc[r] \in {"stream", "copy", "send", "close", "done"} /\ err[r] = "") =>
                  /\ Answered(r)
                  /\ caller[r].status = resp[r].status
                  /\ caller[r].header = resp[r].header
            /\ hpc[r] \in {"idle", "upstream", "headers", "stream", "copy"} =>
                  sends[r] = 0 /\ ~closed[r]
            /\ err[r] # "" =>
                  /\ hpc[r] = "done" /\ resp[r] = NoResponse
                  /\ caller[r] = httpError(err[r], StatusBadGateway))
    /\ [][\A r \in Reqs :
            /\ hpc'[r] # hpc[r] =>
                  <<hpc[r], hpc'[r]>> \in
                      {<<"idle", "upstream">>, <<"upstream", "headers">>,
                       <<"upstream", "done">>, <<"headers", "stream">>,
                       <<"stream", "copy">>, <<"stream", "send">>, <<"copy", "send">>,
                       <<"send", "close">>, <<"close", "done">>}
            /\ (hpc[r] = "upstream" /\ hpc'[r] = "done") <=> err'[r] # err[r]
            /\ caller'[r].body # caller[r].body =>
                  hpc[r] \in {"stream", "copy"} \/ err'[r] # err[r]
            /\ (caller'[r].status # caller[r].status
                    \/ caller'[r].header # caller[r].header) =>
                  hpc[r] = "headers" \/ err'[r] # err[r]]_vars

\* C17 witness: a handler is done after an upstream answer with headers, a 404
\* status and a body, all of them on the caller's response.
C17_Witness ==
    \E r \in Reqs :
        /\ hpc[r] = "done" /\ err[r] = "" /\ closed[r]
        /\ caller[r].status = 404 /\ caller[r].header # <<>> /\ caller[r].body # <<>>

\* C18: whatever the other requests are doing (failed upstream, POST stalled up to
\* its deadline, buffers taken from the pools), a request that may arrive can be
\* handled, a handler that has started can take its next step until it is done, a
\* coroutine that has received can take its next step until it has ended, a
\* coroutine whose handler has sent can receive, and of two coroutines ready to
\* POST either one can go first.
C18_NoRequestWaitsOnAnother ==
    \A r \in Reqs :
        /\ (hpc[r] = "idle" /\ r \in env.reqs) => ENABLED Arrive(r)
        /\ hpc[r] \notin {"idle", "done"} => ENABLED Handler(r)
        /\ (tpc[r] = "recv" /\ sends[r] = 1) => ENABLED Recv(r)
        /\ tpc[r] = "build" => ENABLED Build(r)
        /\ tpc[r] = "ready" => ENABLED PostStart(r)
        /\ tpc[r] = "post" => ENABLED (PostOK(r) \/ PostTimeout(r))

\* C18 witness: one request's upstream call failed, its coroutine left at the
\* receive, and the other request's handler is done and its POST was issued and
\* stalled until the deadline.
C18_Witness ==
    \E r, q \in Reqs :
        /\ r # q /\ err[q] # "" /\ tpc[q] = "recv"
        /\ hpc[r] = "done" /\ posts[r] = 1 /\ tpc[r] = "post" /\ Expired(r)

\* C11: when the block sets max_capture_kb to a number <= 0, the installed handler
\* captures nothing: the response-body and request-body segments of every payload
\* are empty, the upstream reads the whole request body and the caller is written
\* the whole upstream body.
C11_NonPositiveDisablesCapture ==
    \A r \in Reqs :
        (/\ reg = "installed"
         /\ block.max_capture_kb.kind = "number"
         /\ block.max_capture_kb.num <= 0) =>
            /\ hpc[r] # "idle" => reqBody[r] = <<>>
            /\ Built(r) =>
                  payload[r] = <<"{$responseBody}", "{/responseBody},{$requestBody}",
                                 "{/requestBody},{$requestQuery}">> \o req[r].URL.rawQuery
                               \o <<"{/requestQuery},{$requestUrl}">>
                               \o URLString(req[r].URL) \o <<"{/requestUrl}">>
            /\ Answered(r) => upGot[r] = orig[r].data
            /\ Streamed(r) => caller[r].body = resp[r].body

\* C12: once registerClients has been called, the outcome is a returned error
\* whenever tracking_url is missing, is not a string, or does not parse as an
\* absolute URI (with a scheme); the target of every installed handler is an
\* absolute URI.
C12_InvalidURLIsConfigError ==
    LET u == ParseRequestURI(block.tracking_url.str)
        valid == block.tracking_url.kind = "string" /\ u.ok /\ u.scheme # ""
    IN  /\ (reg # "none" /\ ~valid) => reg = "error"
        /\ reg = "installed" => valid

\* C13: an installed handler whose block gives only tracking_url has timeout
\* 2000 ms, capture limit 262144 bytes and verbose off; whatever else the block
\* gives, a timeout_ms or max_capture_kb that is absent, not a number, or a number
\* <= 0 leaves that default, and a number > 0 is taken (whole milliseconds, whole
\* bytes); with a logger held, every block whose tracking_url parses is installed.
C13_DefaultsAndIgnoredOptions ==
    /\ reg = "installed" =>
          /\ cfg.url = block.tracking_url.str.text
          /\ (/\ block.timeout_ms = Absent /\ block.max_capture_kb = Absent
              /\ block.verbose = Absent) =>
                cfg.timeout = 2000 /\ cfg.maxCapture = 262144 /\ ~cfg.verbose
          /\ IF block.timeout_ms.kind = "number" /\ block.timeout_ms.num > 0
             THEN cfg.timeout = block.timeout_ms.num \div 2048
             ELSE cfg.timeout = 2000
          /\ IF block.max_capture_kb.kind = "number" /\ block.max_capture_kb.num > 0
             THEN cfg.maxCapture = block.max_capture_kb.num \div 2
             ELSE cfg.maxCapture = 262144
          /\ cfg.verbose = (block.verbose.kind = "bool" /\ block.verbose.bool)
    /\ (/\ reg # "none" /\ LoggerHeld /\ block.tracking_url.kind = "string"
        /\ ParseRequestURI(block.tracking_url.str).ok) => reg = "installed"

\* C13 witness: a handler installed from a block with only tracking_url captured a
\* whole request body and its POST was aborted 2000 ms after it was issued.
C13_Witness ==
    \E r \in Reqs :
        /\ reg = "installed" /\ block = [NoBlock EXCEPT !.tracking_url = Str(URLAbs)]
        /\ Len(reqBody[r]) = 2
        /\ tpc[r] = "done" /\ timer[r] * env.tickMS = 2000

\* C19: with no logger held (RegisterLogger never called, or called with a value
\* that is not a Logger), registerClients called with a block whose tracking_url
\* parses returns a handler, and no log entry is ever made.
C19_NoLoggerNoFailure ==
    /\ (/\ ~LoggerHeld /\ reg # "none" /\ block.tracking_url.kind = "string"
        /\ ParseRequestURI(block.tracking_url.str).ok) => reg = "installed"
    /\ ~LoggerHeld => \A r \in Reqs : hlog[r] = <<>> /\ tlog[r] = <<>>

=============================================================================
